---- MODULE Spec2Model ----
(***************************************************************************)
(* The transaction relay of the gateway (src/gateway): the durable store   *)
(* behind one shared SQLite connection (db_backend.py, database.py), the   *)
(* request handlers that enqueue transactions (main.py), the background    *)
(* worker (tx_worker.py), the nonce manager (contract.py) and the reward   *)
(* ledger (award_xp / rebuild_agent_stats).                                *)
(*                                                                         *)
(* Every coroutine is cut at its await points that really suspend: the     *)
(* aiosqlite calls (execute, fetch, commit, rollback).  One SQL statement  *)
(* is one step.  All coroutines of the process share ONE connection        *)
(* (database._backend), so they also share its open transaction: what one  *)
(* coroutine has written and not yet committed is visible to the others,   *)
(* is committed by the next commit() of anyone and is undone by the next   *)
(* rollback() of anyone.                                                   *)
(***************************************************************************)
EXTENDS Integers, Sequences, FiniteSets, TLC

VARIABLES
    db,          \* the connection's view of the tables (uncommitted writes included)
    committed,   \* the tables as of the last commit
    in_txn,      \* whether the connection has an open transaction
    last_rowid,  \* SQLiteBackend._last_rowid
    task,        \* the request-handler coroutines: kind, position, arguments, locals
    worker,      \* the tx_worker_loop coroutines, one per worker instance:
                 \* position, the cycle's batch, the entries still to process
    nonce,       \* NonceManager._nonce
    chain,       \* the ledger's view of the runner wallet: the nonces it has accepted
    sent,        \* history: nonces of the successful broadcasts of send_tx, in order
    handed,      \* history: the nonces NonceManager.get_nonce has returned
    direct,      \* history: the nonces of broadcasts that read the ledger's count themselves
    attempted,   \* history: the entry ids a worker has called client.send_tx for, in order
    started      \* history: number of calls started so far (bounds the run)

vars == <<db, committed, in_txn, last_rowid, task, worker, nonce, chain, sent,
          handed, direct, attempted, started>>

storeVars == <<db, committed, in_txn, last_rowid>>
chainVars == <<nonce, chain, sent, handed, direct, attempted>>

(***************************************************************************)
(* Bounds of the model.                                                    *)
(***************************************************************************)
NumTasks == 2
NumWorkers == 2
MaxCalls == 2
MaxRewardCalls == 3
MaxSends == 5
MaxRateCalls == 12
MaxBatchCalls == 6

Tasks == 1..NumTasks
Workers == 1..NumWorkers

\* SQL NULL in an integer column
NULL == -1

\* SQL NULL in a text column
None == "None"

\* settings.max_tx_per_hour
MaxTxPerHour == 10

\* get_pending_txs(limit=5)
BatchLimit == 5

Subjects == {"a1", "a2"}
ActionIds == {"x1"}
IdemKeys == {"k1", "k2"}
EventTypes == {"session_complete", "win", "dm_hosted", "action"}
XpAmounts == {10, 500, 9500}
GoldAmounts == {0, 5}

(***************************************************************************)
(* The store.                                                              *)
(***************************************************************************)
NoRow == [present |-> FALSE]

EmptyDb ==
    [ tx_queue        |-> <<>>,
      action_log      |-> {},
      wallet_bindings |-> [s \in Subjects |-> None],
      xp_events       |-> <<>>,
      agent_stats     |-> [s \in Subjects |-> NoRow] ]

\* SQLiteBackend.commit / rollback on the shared connection
Commit ==
    /\ committed' = db
    /\ in_txn' = FALSE
    /\ UNCHANGED <<db, last_rowid>>

Rollback ==
    /\ db' = committed
    /\ in_txn' = FALSE
    /\ UNCHANGED <<committed, last_rowid>>

(***************************************************************************)
(* Reward ledger: xp_events and its projection agent_stats.                *)
(***************************************************************************)
\* the CASE of the upsert in award_xp and the if/elif chain of rebuild_agent_stats
Level(total_xp) ==
    IF total_xp >= 10000 THEN "legend"
    ELSE IF total_xp >= 2000 THEN "veteran"
    ELSE IF total_xp >= 500 THEN "adventurer"
    ELSE "novice"

\* xp_events.idempotency_key is UNIQUE
KeyExists(events, key) == \E i \in 1..Len(events) : events[i].idempotency_key = key

\* NULL + 1 is NULL
SqlInc(x) == IF x = NULL THEN NULL ELSE x + 1

RECURSIVE SumXp(_)
SumXp(es) == IF es = <<>> THEN 0 ELSE Head(es).xp_amount + SumXp(Tail(es))

RECURSIVE SumGold(_)
SumGold(es) == IF es = <<>> THEN 0 ELSE Head(es).gold_amount + SumGold(Tail(es))

RECURSIVE CountType(_, _)
CountType(es, ty) ==
    IF es = <<>> THEN 0
    ELSE (IF Head(es).event_type = ty THEN 1 ELSE 0) + CountType(Tail(es), ty)

EventsOf(events, s) == SelectSeq(events, LAMBDA e : e.moltbook_id = s)

\* SUM(...) over no rows is NULL; only total_xp and total_gold are COALESCEd
SqlSumCase(es, ty) == IF es = <<>> THEN NULL ELSE CountType(es, ty)

\* the SELECT of rebuild_agent_stats
Aggregate(events, s) ==
    LET es == EventsOf(events, s) IN
    [ total_xp    |-> SumXp(es),
      total_gold  |-> SumGold(es),
      sessions    |-> SqlSumCase(es, "session_complete"),
      wins        |-> SqlSumCase(es, "win"),
      dm_sessions |-> SqlSumCase(es, "dm_hosted") ]

\* INSERT INTO agent_stats (moltbook_id, total_xp, lifetime_gold, created_at)
\* ... ON CONFLICT(moltbook_id) DO UPDATE: a new row takes the column
\* defaults (current_level 'novice', counters 0); an existing row adds the
\* deltas and recomputes current_level
UpsertStats(row, xp, gold) ==
    IF ~row.present
    THEN [ present |-> TRUE, total_xp |-> xp, lifetime_gold |-> gold,
           lifetime_sessions |-> 0, lifetime_wins |-> 0, dm_sessions |-> 0,
           current_level |-> "novice" ]
    ELSE [ row EXCEPT !.total_xp = row.total_xp + xp,
                      !.lifetime_gold = row.lifetime_gold + gold,
                      !.current_level = Level(row.total_xp + xp) ]

\* the UPDATE that follows the upsert, by event type
BumpCounter(row, ty) ==
    IF ty = "dm_hosted" THEN [row EXCEPT !.dm_sessions = SqlInc(row.dm_sessions)]
    ELSE IF ty = "session_complete"
         THEN [row EXCEPT !.lifetime_sessions = SqlInc(row.lifetime_sessions)]
    ELSE IF ty = "win" THEN [row EXCEPT !.lifetime_wins = SqlInc(row.lifetime_wins)]
    ELSE row

\* cursor.lastrowid after an upsert of agent_stats: the rowid of the new row on
\* the INSERT path, the connection's last insert rowid as it was on the UPDATE path
RowidAfterUpsert(stats, s) ==
    IF stats[s].present THEN last_rowid
    ELSE Cardinality({x \in Subjects : stats[x].present}) + 1

\* the upsert of rebuild_agent_stats: every projected column is overwritten
RebuiltRow(agg) ==
    [ present |-> TRUE, total_xp |-> agg.total_xp, lifetime_gold |-> agg.total_gold,
      lifetime_sessions |-> agg.sessions, lifetime_wins |-> agg.wins,
      dm_sessions |-> agg.dm_sessions, current_level |-> Level(agg.total_xp) ]

(***************************************************************************)
(* Coroutines.                                                             *)
(***************************************************************************)
Idle == [kind |-> "idle", pc |-> "idle", req |-> <<>>, loc |-> <<>>, result |-> "none"]

\* fetched and since are history: the batch the cycle started with, and the
\* number of submissions made before it started
IdleWorker == [pc |-> "sleep", fetched |-> <<>>, since |-> 0, batch |-> <<>>]

AllIdle == \A t \in Tasks : task[t] = Idle

\* a new request is served by the first free coroutine slot
FreeSlot(t) == task[t] = Idle /\ \A u \in Tasks : u < t => task[u] # Idle

\* a handler has returned; its slot serves the next request
Return(t) ==
    /\ task[t].pc = "done"
    /\ task' = [task EXCEPT ![t] = Idle]
    /\ UNCHANGED <<storeVars, worker, chainVars, started>>

(***************************************************************************)
(* internal_award_xp (POST /internal/award-xp) -> award_xp, statement by   *)
(* statement.  loc.snap is a history copy of the committed tables at the   *)
(* call, for the claims; the code does not read it.                        *)
(***************************************************************************)
AwardRequests ==
    [ idempotency_key : IdemKeys, moltbook_id : Subjects, event_type : EventTypes,
      xp_amount : XpAmounts, gold_amount : GoldAmounts ]

\* f"dm_hosted:{req.session_id}:{moltbook_id}", for the one session id of the model
DmHostedKey == [m \in Subjects |-> IF m = "a1" THEN "dm_hosted:s1:a1" ELSE "dm_hosted:s1:a2"]

\* the arguments of the award_xp call a coroutine is in: those of the request
\* for internal_award_xp, the fixed dm_hosted credit for game_accept_dm
AwardArgs(tk) ==
    IF tk.kind = "game_accept_dm"
    THEN [ idempotency_key |-> DmHostedKey[tk.req.moltbook_id],
           moltbook_id |-> tk.req.moltbook_id, event_type |-> "dm_hosted",
           xp_amount |-> 75, gold_amount |-> 0 ]
    ELSE tk.req

InAward(t, pc) == task[t].kind \in {"award", "game_accept_dm"} /\ task[t].pc = pc

CallAward(t, r) ==
    /\ FreeSlot(t)
    /\ started' = started + 1
    /\ task' = [task EXCEPT ![t] =
                 [ kind |-> "award", pc |-> "begin", req |-> r,
                   loc |-> [snap |-> committed, exc |-> "none"], result |-> "none" ]]
    /\ UNCHANGED <<storeVars, worker, chainVars>>

\* await db.begin(): BEGIN inside an open transaction raises OperationalError
\* ("cannot start a transaction within a transaction"), which the except
\* branch does not recognise as a duplicate: rollback, then re-raise
AwardBegin(t) ==
    /\ InAward(t, "begin")
    /\ IF in_txn
       THEN /\ task' = [task EXCEPT ![t].pc = "rollback", ![t].loc.exc = "operational"]
            /\ UNCHANGED in_txn
       ELSE /\ task' = [task EXCEPT ![t].pc = "insert_event"]
            /\ in_txn' = TRUE
    /\ UNCHANGED <<db, committed, last_rowid, worker, chainVars, started>>

\* INSERT INTO xp_events: the UNIQUE idempotency_key makes a second insert fail
InsertEvent(events, r) ==
    IF KeyExists(events, r.idempotency_key) THEN events ELSE Append(events, r)

AwardInsertEvent(t) ==
    /\ InAward(t, "insert_event")
    /\ LET r == AwardArgs(task[t])
           events == InsertEvent(db.xp_events, r) IN
       IF events = db.xp_events
       THEN /\ task' = [task EXCEPT ![t].pc = "rollback", ![t].loc.exc = "unique"]
            /\ UNCHANGED <<db, last_rowid>>
       ELSE /\ db' = [db EXCEPT !.xp_events = events]
            /\ last_rowid' = Len(events)
            /\ task' = [task EXCEPT ![t].pc = "upsert_stats"]
    /\ in_txn' = TRUE
    /\ UNCHANGED <<committed, worker, chainVars, started>>

AwardUpsertStats(t) ==
    /\ InAward(t, "upsert_stats")
    /\ LET r == AwardArgs(task[t])
           s == r.moltbook_id IN
       /\ db' = [db EXCEPT !.agent_stats[s] = UpsertStats(@, r.xp_amount, r.gold_amount)]
       /\ last_rowid' = RowidAfterUpsert(db.agent_stats, s)
       /\ task' = [task EXCEPT ![t].pc =
                     IF r.event_type \in {"dm_hosted", "session_complete", "win"}
                     THEN "counter" ELSE "commit"]
    /\ in_txn' = TRUE
    /\ UNCHANGED <<committed, worker, chainVars, started>>

\* UPDATE agent_stats SET <counter> = <counter> + 1 WHERE moltbook_id = ?
AwardCounter(t) ==
    /\ InAward(t, "counter")
    /\ LET r == AwardArgs(task[t])
           s == r.moltbook_id IN
       db' = [db EXCEPT !.agent_stats[s] =
                 IF @.present THEN BumpCounter(@, r.event_type) ELSE @]
    /\ task' = [task EXCEPT ![t].pc = "commit"]
    /\ in_txn' = TRUE
    /\ UNCHANGED <<committed, last_rowid, worker, chainVars, started>>

\* a rebuild that has read its aggregates and not yet written them is marked
\* (history) when an award of its subject commits in between
MarkRaced(tk, s) ==
    IF tk.kind = "rebuild" /\ tk.pc = "write" /\ tk.req.moltbook_id = s
    THEN [tk EXCEPT !.loc.raced = TRUE] ELSE tk

AwardCommit(t) ==
    /\ InAward(t, "commit")
    /\ Commit
    /\ task' = [u \in Tasks |->
                  IF u = t
                  THEN [task[t] EXCEPT !.pc = "done",
                                       !.result = IF task[t].kind = "award" THEN "True" ELSE "ok"]
                  ELSE MarkRaced(task[u], task[t].req.moltbook_id)]
    /\ UNCHANGED <<worker, chainVars, started>>

\* except Exception: a uniqueness error returns False, anything else is
\* re-raised; both after await db.rollback().  internal_award_xp returns
\* {"ok": ok}; game_accept_dm ignores the returned value and answers with the
\* queue entry, and an exception leaves either handler as HTTP 500
AwardRollback(t) ==
    /\ InAward(t, "rollback")
    /\ Rollback
    /\ task' = [task EXCEPT ![t].pc = "done",
                            ![t].result =
                                IF task[t].kind = "award"
                                THEN (IF task[t].loc.exc = "unique" THEN "False" ELSE "raised")
                                ELSE (IF task[t].loc.exc = "unique" THEN "ok" ELSE "error")]
    /\ UNCHANGED <<worker, chainVars, started>>

award_xp(t) ==
    \/ AwardBegin(t)
    \/ AwardInsertEvent(t)
    \/ AwardUpsertStats(t)
    \/ AwardCounter(t)
    \/ AwardCommit(t)
    \/ AwardRollback(t)

(***************************************************************************)
(* rebuild_agent_stats(moltbook_id): read the aggregates, overwrite the    *)
(* row, commit.                                                            *)
(***************************************************************************)
CallRebuild(t, s) ==
    /\ FreeSlot(t)
    /\ started' = started + 1
    /\ task' = [task EXCEPT ![t] =
                 [ kind |-> "rebuild", pc |-> "read", req |-> [moltbook_id |-> s],
                   loc |-> [snap |-> committed, agg |-> <<>>, raced |-> FALSE],
                   result |-> "none" ]]
    /\ UNCHANGED <<storeVars, worker, chainVars>>

RebuildRead(t) ==
    /\ task[t].kind = "rebuild" /\ task[t].pc = "read"
    /\ task' = [task EXCEPT ![t].pc = "write",
                            ![t].loc.agg = Aggregate(db.xp_events, task[t].req.moltbook_id)]
    /\ UNCHANGED <<storeVars, worker, chainVars, started>>

RebuildWrite(t) ==
    /\ task[t].kind = "rebuild" /\ task[t].pc = "write"
    /\ db' = [db EXCEPT !.agent_stats[task[t].req.moltbook_id] = RebuiltRow(task[t].loc.agg)]
    /\ last_rowid' = RowidAfterUpsert(db.agent_stats, task[t].req.moltbook_id)
    /\ in_txn' = TRUE
    /\ task' = [task EXCEPT ![t].pc = "commit"]
    /\ UNCHANGED <<committed, worker, chainVars, started>>

RebuildCommit(t) ==
    /\ task[t].kind = "rebuild" /\ task[t].pc = "commit"
    /\ Commit
    /\ task' = [task EXCEPT ![t].pc = "done", ![t].result = "None"]
    /\ UNCHANGED <<worker, chainVars, started>>

rebuild_agent_stats(t) ==
    \/ RebuildRead(t)
    \/ RebuildWrite(t)
    \/ RebuildCommit(t)

(***************************************************************************)
(* tx_queue: a row is [action_id, moltbook_id, method, status, tx_hash,    *)
(* error]; its id is its position (INTEGER PRIMARY KEY AUTOINCREMENT) and  *)
(* rows are kept in insertion order, which is the order of created_at.     *)
(***************************************************************************)
\* SELECT * FROM tx_queue WHERE moltbook_id = ? AND action_id = ?
TxByAction(queue, m, a) ==
    {i \in 1..Len(queue) : queue[i].moltbook_id = m /\ queue[i].action_id = a}

\* a table without UNIQUE(moltbook_id, action_id)
InsertTxNoUnique(queue, row) == Append(queue, row)

\* INSERT INTO tx_queue ... VALUES (?, ?, ?, ?, 'pending', ?, ?): the
\* UNIQUE(moltbook_id, action_id) constraint refuses a second row of a pair
InsertTx(queue, row) ==
    IF TxByAction(queue, row.moltbook_id, row.action_id) # {} THEN queue
    ELSE Append(queue, row)

NewTx(a, m, method) ==
    [ action_id |-> a, moltbook_id |-> m, method |-> method,
      status |-> "pending", tx_hash |-> None, error |-> None ]

\* SELECT COUNT(*) FROM tx_queue WHERE moltbook_id = ? AND created_at > now - 3600
\* (every row of a run of the model is younger than the window)
count_recent_txs(queue, m) ==
    Cardinality({i \in 1..Len(queue) : queue[i].moltbook_id = m})

RECURSIVE FirstN(_, _)
FirstN(q, n) == IF n = 0 \/ q = <<>> THEN <<>> ELSE <<Head(q)>> \o FirstN(Tail(q), n - 1)

\* SELECT * FROM tx_queue WHERE status = 'pending' ORDER BY created_at LIMIT ?
get_pending_txs(queue, limit) ==
    LET ids == [i \in 1..Len(queue) |-> i] IN
    FirstN(SelectSeq(ids, LAMBDA i : queue[i].status = "pending"), limit)

\* an UPDATE that writes error only when one is given
update_tx_statusKeepsError(queue, id, status, tx_hash, error) ==
    IF id \in 1..Len(queue)
    THEN [queue EXCEPT ![id].status = status, ![id].tx_hash = tx_hash,
                       ![id].error = IF error = None THEN @ ELSE error]
    ELSE queue

\* an UPDATE that also resets the row's method
update_tx_statusResetsMethod(queue, id, status, tx_hash, error) ==
    IF id \in 1..Len(queue)
    THEN [queue EXCEPT ![id].status = status, ![id].tx_hash = tx_hash, ![id].error = error,
                       ![id].method = None]
    ELSE queue

\* UPDATE tx_queue SET status = ?, tx_hash = ?, error = ? WHERE id = ?
update_tx_status(queue, id, status, tx_hash, error) ==
    IF id \in 1..Len(queue)
    THEN [queue EXCEPT ![id].status = status, ![id].tx_hash = tx_hash, ![id].error = error]
    ELSE queue

(***************************************************************************)
(* The enqueueing handlers of main.py: game_enter, game_action, game_dm,   *)
(* game_accept_dm and auth_link_simple.  What a handler reads from the     *)
(* ledger (epoch, session) is chosen by the environment at the read.       *)
(***************************************************************************)
GameKinds == {"game_enter", "game_action", "game_dm", "game_accept_dm"}

Method(kind) ==
    CASE kind = "game_enter"       -> "enterDungeon"
      [] kind = "game_action"      -> "submitAction"
      [] kind = "game_dm"          -> "submitDMResponse"
      [] kind = "game_accept_dm"   -> "acceptDM"
      [] kind = "auth_link_simple" -> "registerAgent"

Wallets == {"w1"}

\* f"register:{wallet}"
RegisterActionId(w) == IF w = "w1" THEN "register:w1" ELSE "register:w2"

\* client.get_epoch_info(): {} when the read fails
EpochInfos == {"empty", "Active", "Grace"}

\* client.get_session_info(session_id): None, or the session's fields
NoSession == [present |-> FALSE]
SessionInfos ==
    {NoSession} \cup
    [ present : {TRUE}, state : {1, 2, 3}, current_turn : {0, 1}, dm_epoch : {0, 1} ]

\* validate_turn_index with the turn compared before the state
validate_turn_indexTurnFirst(info, turn_index) ==
    IF ~info.present THEN "SESSION_NOT_FOUND"
    ELSE IF turn_index # info.current_turn THEN "TURN_MISMATCH"
    ELSE IF info.state # 2 THEN "SESSION_NOT_ACTIVE"
    ELSE "valid"

validate_turn_index(info, turn_index) ==
    IF ~info.present THEN "SESSION_NOT_FOUND"
    ELSE IF info.state # 2 THEN "SESSION_NOT_ACTIVE"
    ELSE IF turn_index # info.current_turn THEN "TURN_MISMATCH"
    ELSE "valid"

\* the pre-flight of game_accept_dm
ValidateAcceptDm(info, dm_epoch) ==
    IF ~info.present THEN "SESSION_NOT_FOUND"
    ELSE IF info.state # 1
         THEN (IF info.state = 2 THEN "ALREADY_ACCEPTED" ELSE "SESSION_NOT_WAITING_DM")
    ELSE IF dm_epoch # info.dm_epoch THEN "DM_EPOCH_MISMATCH"
    ELSE "valid"

Finish(tk, result) == [tk EXCEPT !.pc = "done", !.result = result]

\* what the pre-flight validation of a request makes of the ledger's session
\* snapshot: validate_turn_index for the turn submissions, the inline checks
\* of game_accept_dm, nothing for game_enter
Verdict(kind, info, turn_index, dm_epoch) ==
    CASE kind = "game_enter" -> "valid"
      [] kind \in {"game_action", "game_dm"} -> validate_turn_index(info, turn_index)
      [] kind = "game_accept_dm" -> ValidateAcceptDm(info, dm_epoch)

\* the verdicts the ledger and the request's declared values can produce
Verdicts(kind) ==
    { Verdict(kind, info, turn_index, dm_epoch) :
        info \in SessionInfos, turn_index \in {0, 1}, dm_epoch \in {0, 1} }

\* An answer given at admission, together with the verdict that the request's
\* declared values (req.turn_index, req.dm_epoch) and the ledger's session
\* snapshot of that moment call for.  Nothing before the pre-flight depends
\* on them, so they are drawn at the step that answers.
Answer(tk, result, code) ==
    Finish([tk EXCEPT !.loc.verdict = code], result)

CallGame(t, kind, m, a) ==
    /\ FreeSlot(t)
    /\ started' = started + 1
    /\ task' = [task EXCEPT ![t] =
                 [ kind |-> kind, pc |-> "rate",
                   req |-> [moltbook_id |-> m, action_id |-> a],
                   loc |-> [tx_id |-> NULL, exc |-> "none", epoch |-> "unread",
                           verdict |-> "none"],
                   result |-> "none" ]]
    /\ UNCHANGED <<storeVars, worker, chainVars>>

\* what get_epoch_info can report to game_enter, the one handler that reads
\* the epoch before admission
LedgerEpochs(kind) == IF kind = "game_enter" THEN EpochInfos ELSE {"unread"}

\* _check_rate_limit with the comparison > in place of >=
CheckRateLimitLate(t) ==
    /\ task[t].kind \in GameKinds /\ task[t].pc = "rate"
    /\ IF count_recent_txs(db.tx_queue, task[t].req.moltbook_id) > MaxTxPerHour
       THEN \E ei \in LedgerEpochs(task[t].kind), code \in Verdicts(task[t].kind) :
                task' = [task EXCEPT ![t] =
                           Answer([@ EXCEPT !.loc.epoch = ei], "RATE_LIMIT", code)]
       ELSE \E ei \in LedgerEpochs(task[t].kind) :
                task' = [task EXCEPT ![t] =
                           IF ei = "Grace"
                           THEN Finish([@ EXCEPT !.loc.epoch = ei], "EPOCH_NOT_ACTIVE")
                           ELSE [@ EXCEPT !.pc = "idem", !.loc.epoch = ei]]
    /\ UNCHANGED <<storeVars, worker, chainVars, started>>

\* _check_rate_limit, then (game_enter only) the epoch pre-flight
CheckRateLimit(t) ==
    /\ task[t].kind \in GameKinds /\ task[t].pc = "rate"
    /\ IF count_recent_txs(db.tx_queue, task[t].req.moltbook_id) >= MaxTxPerHour
       THEN \E ei \in LedgerEpochs(task[t].kind), code \in Verdicts(task[t].kind) :
                task' = [task EXCEPT ![t] =
                           Answer([@ EXCEPT !.loc.epoch = ei], "RATE_LIMIT", code)]
       ELSE \E ei \in LedgerEpochs(task[t].kind) :
                task' = [task EXCEPT ![t] =
                           IF ei = "Grace"
                           THEN Finish([@ EXCEPT !.loc.epoch = ei], "EPOCH_NOT_ACTIVE")
                           ELSE [@ EXCEPT !.pc = "idem", !.loc.epoch = ei]]
    /\ UNCHANGED <<storeVars, worker, chainVars, started>>

\* the pre-flight validation that follows the idempotency check
PreFlight(tk, code) ==
    IF code # "valid" THEN Answer(tk, code, code)
    ELSE [tk EXCEPT !.pc = IF tk.kind = "game_action" THEN "binding" ELSE "insert",
                    !.loc.verdict = code]

\* _check_idempotency with a commit of the connection after its SELECT
CheckIdempotencyCommits(t) ==
    /\ task[t].kind \in GameKinds /\ task[t].pc = "idem"
    /\ LET existing == TxByAction(db.tx_queue, task[t].req.moltbook_id, task[t].req.action_id) IN
       IF existing # {}
       THEN \E code \in Verdicts(task[t].kind) :
                task' = [task EXCEPT ![t] =
                           Answer([@ EXCEPT !.loc.tx_id = CHOOSE i \in existing : TRUE],
                                  "ok", code)]
       ELSE \E code \in Verdicts(task[t].kind) :
                task' = [task EXCEPT ![t] = PreFlight(@, code)]
    /\ Commit
    /\ UNCHANGED <<worker, chainVars, started>>

\* _check_idempotency: an existing entry of the pair is returned as it is
CheckIdempotency(t) ==
    /\ task[t].kind \in GameKinds /\ task[t].pc = "idem"
    /\ LET existing == TxByAction(db.tx_queue, task[t].req.moltbook_id, task[t].req.action_id) IN
       IF existing # {}
       THEN \E code \in Verdicts(task[t].kind) :
                task' = [task EXCEPT ![t] =
                           Answer([@ EXCEPT !.loc.tx_id = CHOOSE i \in existing : TRUE],
                                  "ok", code)]
       ELSE \E code \in Verdicts(task[t].kind) :
                task' = [task EXCEPT ![t] = PreFlight(@, code)]
    /\ UNCHANGED <<storeVars, worker, chainVars, started>>

\* game_action: binding = await get_wallet_binding(moltbook_id)
GetPlayerBinding(t) ==
    /\ task[t].kind = "game_action" /\ task[t].pc = "binding"
    /\ task' = [task EXCEPT ![t] =
                  IF db.wallet_bindings[@.req.moltbook_id] = None
                  THEN Finish(@, "LINK_WALLET_FIRST")
                  ELSE [@ EXCEPT !.pc = "insert"]]
    /\ UNCHANGED <<storeVars, worker, chainVars, started>>

\* enqueue_tx, the INSERT: an IntegrityError is not caught by any handler
\* (HTTP 500) and leaves the connection's transaction open
EnqueueInsert(t) ==
    /\ task[t].kind \in GameKinds \cup {"auth_link_simple"} /\ task[t].pc = "insert"
    /\ LET r == task[t].req
           queue == InsertTx(db.tx_queue, NewTx(r.action_id, r.moltbook_id, Method(task[t].kind))) IN
       IF queue = db.tx_queue
       THEN /\ task' = [task EXCEPT ![t] = Finish([@ EXCEPT !.loc.exc = "integrity"], "error")]
            /\ UNCHANGED <<db, last_rowid>>
       ELSE /\ db' = [db EXCEPT !.tx_queue = queue]
            /\ last_rowid' = Len(queue)
            /\ task' = [task EXCEPT ![t].pc = "enqueue_commit"]
    /\ in_txn' = TRUE
    /\ UNCHANGED <<committed, worker, chainVars, started>>

\* enqueue_tx, await db.commit() and return await db.lastrowid();
\* auth_link_simple then calls client.send_tickets_mint, which ContractClient
\* does not define: the AttributeError is caught and logged
EnqueueCommit(t) ==
    /\ task[t].kind \in GameKinds \cup {"auth_link_simple"} /\ task[t].pc = "enqueue_commit"
    /\ Commit
    /\ task' = [task EXCEPT ![t] =
                  IF @.kind = "auth_link_simple"
                  THEN Finish([@ EXCEPT !.loc.tx_id = last_rowid], "ok")
                  ELSE [@ EXCEPT !.loc.tx_id = last_rowid, !.pc = "log_insert"]]
    /\ UNCHANGED <<worker, chainVars, started>>

\* what follows log_action: the dm_hosted award for game_accept_dm, the
\* response for the others
AfterLog(tk) == IF tk.kind = "game_accept_dm" THEN [tk EXCEPT !.pc = "begin"] ELSE Finish(tk, "ok")

\* log_action, the INSERT: action_log.action_id is UNIQUE over all callers; a
\* uniqueness error makes log_action return False, with no rollback
LogInsert(t) ==
    /\ task[t].kind \in GameKinds \cup {"internal_log_action"} /\ task[t].pc = "log_insert"
    /\ LET r == task[t].req IN
       IF \E l \in db.action_log : l.action_id = r.action_id
       THEN /\ task' = [task EXCEPT ![t] = AfterLog(@)]
            /\ UNCHANGED <<db, last_rowid>>
       ELSE /\ db' = [db EXCEPT !.action_log = @ \cup
                        {[action_id |-> r.action_id, moltbook_id |-> r.moltbook_id]}]
            /\ last_rowid' = Cardinality(db.action_log) + 1
            /\ task' = [task EXCEPT ![t].pc = "log_commit"]
    /\ in_txn' = TRUE
    /\ UNCHANGED <<committed, worker, chainVars, started>>

LogCommit(t) ==
    /\ task[t].kind \in GameKinds \cup {"internal_log_action"} /\ task[t].pc = "log_commit"
    /\ Commit
    /\ task' = [task EXCEPT ![t] = AfterLog(@)]
    /\ UNCHANGED <<worker, chainVars, started>>

CallLink(t, m, w) ==
    /\ FreeSlot(t)
    /\ started' = started + 1
    /\ task' = [task EXCEPT ![t] =
                 [ kind |-> "auth_link_simple", pc |-> "get_binding",
                   req |-> [moltbook_id |-> m, action_id |-> RegisterActionId(w), wallet |-> w],
                   loc |-> [tx_id |-> NULL, exc |-> "none"], result |-> "none" ]]
    /\ UNCHANGED <<storeVars, worker, chainVars>>

\* existing = await get_wallet_binding(moltbook_id)
LinkGetBinding(t) ==
    /\ task[t].kind = "auth_link_simple" /\ task[t].pc = "get_binding"
    /\ task' = [task EXCEPT ![t] =
                  IF db.wallet_bindings[@.req.moltbook_id] # None
                  THEN Finish(@, "ALREADY_LINKED")
                  ELSE [@ EXCEPT !.pc = "bind"]]
    /\ UNCHANGED <<storeVars, worker, chainVars, started>>

\* create_wallet_binding: INSERT ... ON CONFLICT(moltbook_id) DO UPDATE, commit
LinkCreateBinding(t) ==
    /\ task[t].kind = "auth_link_simple" /\ task[t].pc = "bind"
    /\ LET m == task[t].req.moltbook_id IN
       /\ db' = [db EXCEPT !.wallet_bindings[m] = task[t].req.wallet]
       /\ last_rowid' = IF db.wallet_bindings[m] # None THEN last_rowid
                        ELSE Cardinality({x \in Subjects : db.wallet_bindings[x] # None}) + 1
    /\ in_txn' = TRUE
    /\ task' = [task EXCEPT ![t].pc = "bind_commit"]
    /\ UNCHANGED <<committed, worker, chainVars, started>>

LinkCommitBinding(t) ==
    /\ task[t].kind = "auth_link_simple" /\ task[t].pc = "bind_commit"
    /\ Commit
    /\ task' = [task EXCEPT ![t].pc = "insert"]
    /\ UNCHANGED <<worker, chainVars, started>>

\* POST /internal/log-action: make sure the subject has an agent_stats row
\* (INSERT ... ON CONFLICT(moltbook_id) DO NOTHING, commit), then log_action
CallLog(t, m, a) ==
    /\ FreeSlot(t)
    /\ started' = started + 1
    /\ task' = [task EXCEPT ![t] =
                 [ kind |-> "internal_log_action", pc |-> "ensure_row",
                   req |-> [moltbook_id |-> m, action_id |-> a],
                   loc |-> [tx_id |-> NULL, exc |-> "none"], result |-> "none" ]]
    /\ UNCHANGED <<storeVars, worker, chainVars>>

LogEnsureRow(t) ==
    /\ task[t].kind = "internal_log_action" /\ task[t].pc = "ensure_row"
    /\ LET m == task[t].req.moltbook_id IN
       /\ db' = [db EXCEPT !.agent_stats[m] = IF @.present THEN @ ELSE UpsertStats(@, 0, 0)]
       /\ last_rowid' = RowidAfterUpsert(db.agent_stats, m)
    /\ in_txn' = TRUE
    /\ task' = [task EXCEPT ![t].pc = "ensure_commit"]
    /\ UNCHANGED <<committed, worker, chainVars, started>>

LogEnsureCommit(t) ==
    /\ task[t].kind = "internal_log_action" /\ task[t].pc = "ensure_commit"
    /\ Commit
    /\ task' = [task EXCEPT ![t].pc = "log_insert"]
    /\ UNCHANGED <<worker, chainVars, started>>

internal_log_action(t) ==
    \/ LogEnsureRow(t)
    \/ LogEnsureCommit(t)
    \/ LogInsert(t)
    \/ LogCommit(t)

enqueue_handler(t) ==
    \/ CheckRateLimit(t)
    \/ CheckIdempotency(t)
    \/ GetPlayerBinding(t)
    \/ LinkGetBinding(t)
    \/ LinkCreateBinding(t)
    \/ LinkCommitBinding(t)
    \/ EnqueueInsert(t)
    \/ EnqueueCommit(t)
    \/ LogInsert(t)
    \/ LogCommit(t)

(***************************************************************************)
(* tx_worker_loop: one coroutine per process (lifespan), a batch of at     *)
(* most BatchLimit pending entries per cycle, one entry after the other.   *)
(* worker[w] is the loop of worker instance w.  Instance 1 is the loop the *)
(* gateway process starts itself: it uses the process's connection.  A     *)
(* further instance is another process on the same database file, with a   *)
(* connection of its own: it reads what is committed, and SQLite lets it   *)
(* write only while no other connection has a transaction open, so its     *)
(* UPDATE and commit take effect together.                                 *)
(***************************************************************************)
Local(w) == w = 1

\* update_tx_status of worker w: the UPDATE
WorkerUpdate(w, status, error) ==
    IF Local(w)
    THEN /\ db' = [db EXCEPT !.tx_queue = update_tx_status(@, Head(worker[w].batch), status, None, error)]
         /\ in_txn' = TRUE
         /\ UNCHANGED <<committed, last_rowid>>
    ELSE /\ ~in_txn
         /\ db' = [db EXCEPT !.tx_queue = update_tx_status(@, Head(worker[w].batch), status, None, error)]
         /\ committed' = [committed EXCEPT !.tx_queue = update_tx_status(@, Head(worker[w].batch), status, None, error)]
         /\ UNCHANGED <<in_txn, last_rowid>>

\* update_tx_status of worker w: await db.commit()
WorkerCommit(w) == IF Local(w) THEN Commit ELSE UNCHANGED storeVars

\* the keyword parameters ContractClient.send_tx(self, method, *args) accepts
SendTxKeywords == {"method"}

\* the keywords of the worker's call client.send_tx(method, *params, value=value)
WorkerCallKeywords == {"value"}

\* Python binds a call only if the callee accepts every keyword passed;
\* otherwise the call raises TypeError before the callee's body starts
Binds(keywords, accepted) == keywords \subseteq accepted

\* pending = await get_pending_txs(limit=5); asyncio.sleep(5) when the batch is done
WorkerFetch(w) ==
    /\ worker[w].pc = "sleep"
    /\ LET batch == get_pending_txs(IF Local(w) THEN db.tx_queue ELSE committed.tx_queue, BatchLimit) IN
       /\ batch # <<>>
       /\ worker' = [worker EXCEPT ![w] = [pc |-> "mark_submitting", fetched |-> batch,
                                           since |-> Len(attempted), batch |-> batch]]
    /\ UNCHANGED <<storeVars, task, chainVars, started>>

\* await update_tx_status(tx_id, "submitting"): the UPDATE
WorkerMarkSubmitting(w) ==
    /\ worker[w].pc = "mark_submitting"
    /\ WorkerUpdate(w, "submitting", None)
    /\ worker' = [worker EXCEPT ![w].pc = "commit_submitting"]
    /\ UNCHANGED <<task, chainVars, started>>

\* the commit of that update, then the call of client.send_tx: it does not
\* bind, so the except branch is entered with no nonce allocated and nothing
\* broadcast, and the rest of the try block is not reached
WorkerCommitSubmitting(w) ==
    /\ worker[w].pc = "commit_submitting"
    /\ WorkerCommit(w)
    /\ attempted' = Append(attempted, Head(worker[w].batch))
    /\ worker' = [worker EXCEPT ![w].pc = IF Binds(WorkerCallKeywords, SendTxKeywords)
                                          THEN "mark_submitted" ELSE "mark_failed"]
    /\ UNCHANGED <<task, nonce, chain, sent, handed, direct, started>>

\* an exception handler that records the failure without the error text
WorkerMarkFailedNoText(w) ==
    /\ worker[w].pc = "mark_failed"
    /\ WorkerUpdate(w, "failed", None)
    /\ worker' = [worker EXCEPT ![w].pc = "commit_failed"]
    /\ UNCHANGED <<task, chainVars, started>>

\* except Exception: await update_tx_status(tx_id, "failed", error=str(e))
WorkerMarkFailed(w) ==
    /\ worker[w].pc = "mark_failed"
    /\ WorkerUpdate(w, "failed", "TypeError")
    /\ worker' = [worker EXCEPT ![w].pc = "commit_failed"]
    /\ UNCHANGED <<task, chainVars, started>>

\* a worker whose cycle ends with the first entry that fails
WorkerCommitFailedAbort(w) ==
    /\ worker[w].pc = "commit_failed"
    /\ WorkerCommit(w)
    /\ worker' = [worker EXCEPT ![w] = IdleWorker]
    /\ UNCHANGED <<task, chainVars, started>>

\* the commit of that update; the next entry of the batch, or the sleep
WorkerCommitFailed(w) ==
    /\ worker[w].pc = "commit_failed"
    /\ WorkerCommit(w)
    /\ worker' = [worker EXCEPT ![w] =
                    IF Tail(@.batch) = <<>> THEN IdleWorker
                    ELSE [@ EXCEPT !.pc = "mark_submitting", !.batch = Tail(@)]]
    /\ UNCHANGED <<task, chainVars, started>>

tx_worker_loop(w) ==
    \/ WorkerFetch(w)
    \/ WorkerMarkSubmitting(w)
    \/ WorkerCommitSubmitting(w)
    \/ WorkerMarkFailed(w)
    \/ WorkerCommitFailed(w)

(***************************************************************************)
(* The runner wallet: NonceManager, ContractClient.send_tx and the two     *)
(* admin handlers that send with it.  None of them awaits anything that    *)
(* suspends (the lock is free whenever it is taken and the web3 calls are  *)
(* synchronous), so a call of send_tx runs from its first line to its      *)
(* return or raise without another coroutine in between.  chain is the set *)
(* of nonces of the wallet the ledger holds (mined or pending).            *)
(***************************************************************************)
\* w3.eth.get_transaction_count(address, "pending")
get_transaction_count(held) ==
    CHOOSE n \in 0..Cardinality(held) : n \notin held /\ \A k \in 0..(n - 1) : k \in held

\* a nonce manager that counts down from the loaded value
get_nonceDown(cached, held) ==
    IF cached = NULL THEN get_transaction_count(held) ELSE cached - 1

\* a nonce manager that starts from 0 instead of loading from the ledger
get_nonceFromZero(cached, held) ==
    IF cached = NULL THEN 0 ELSE cached + 1

\* NonceManager.get_nonce: loaded from the ledger when None, else incremented
get_nonce(cached, held) ==
    IF cached = NULL THEN get_transaction_count(held) ELSE cached + 1

\* ContractClient.send_tx(method, *args)
send_tx ==
    \/ \* get_transaction_count raises inside get_nonce: _nonce stays None
       /\ nonce = NULL
       /\ UNCHANGED chainVars
    \/ \* gas_price, build_transaction or send_raw_transaction raises after
       \* get_nonce has returned: the allocated nonce stays consumed
       /\ nonce' = get_nonce(nonce, chain)
       /\ handed' = handed \cup {nonce'}
       /\ UNCHANGED <<chain, sent, direct, attempted>>
    \/ \* send_raw_transaction returns the hash: the ledger holds the
       \* transaction, which it refuses for a nonce it already holds
       /\ get_nonce(nonce, chain) \notin chain
       /\ nonce' = get_nonce(nonce, chain)
       /\ handed' = handed \cup {nonce'}
       /\ chain' = chain \cup {nonce'}
       /\ sent' = Append(sent, nonce')
       /\ UNCHANGED <<direct, attempted>>

\* POST /admin/register-runner: nothing is sent when the runner is already
\* registered or the registeredAgents read raises; otherwise send_tx
admin_register_runner ==
    /\ started < MaxSends
    /\ started' = started + 1
    /\ \/ UNCHANGED chainVars
       \/ send_tx
    /\ UNCHANGED <<storeVars, task, worker>>

\* POST /admin/mint-runner-tickets: the nonce is read from the ledger, not
\* taken from NonceManager; the broadcast is accepted or raises
admin_mint_runner_tickets ==
    /\ started < MaxSends
    /\ started' = started + 1
    /\ \/ UNCHANGED chainVars
       \/ /\ chain' = chain \cup {get_transaction_count(chain)}
          /\ direct' = direct \cup {get_transaction_count(chain)}
          /\ UNCHANGED <<nonce, sent, handed, attempted>>
    /\ UNCHANGED <<storeVars, task, worker>>

(***************************************************************************)
(* Specifications of the reward ledger.                                    *)
(*   SpecReward:     calls of internal_award_xp, rebuild_agent_stats and   *)
(*                   internal_log_action made one after the other (a call  *)
(*                   starts when none is running).                         *)
(*   SpecRewardRace: the same calls made by concurrent coroutines, which   *)
(*                   interleave at every await.                            *)
(***************************************************************************)
InitStore ==
    /\ db = EmptyDb
    /\ committed = EmptyDb
    /\ in_txn = FALSE
    /\ last_rowid = NULL

InitChain ==
    /\ nonce = NULL
    /\ chain = {}
    /\ sent = <<>>
    /\ handed = {}
    /\ direct = {}
    /\ attempted = <<>>

Init ==
    /\ InitStore
    /\ InitChain
    /\ task = [t \in Tasks |-> Idle]
    /\ worker = [w \in Workers |-> IdleWorker]
    /\ started = 0

CallReward(t) ==
    \/ \E r \in AwardRequests : CallAward(t, r)
    \/ \E s \in Subjects : CallRebuild(t, s)
    \/ \E m \in Subjects, a \in ActionIds : CallLog(t, m, a)

RewardSteps(t) ==
    \/ award_xp(t)
    \/ rebuild_agent_stats(t)
    \/ internal_log_action(t)
    \/ Return(t)

NextReward ==
    \/ /\ AllIdle
       /\ started < MaxRewardCalls
       /\ CallReward(1)
    \/ RewardSteps(1)

SpecReward == Init /\ [][NextReward]_vars

NextRewardRace ==
    \E t \in Tasks :
        \/ started < MaxCalls /\ CallReward(t)
        \/ RewardSteps(t)

SpecRewardRace == Init /\ [][NextRewardRace]_vars

(***************************************************************************)
(* SpecNonce: calls of the handlers that send with the runner wallet.      *)
(***************************************************************************)
NextNonce ==
    \/ admin_register_runner
    \/ admin_mint_runner_tickets

SpecNonce == Init /\ [][NextNonce]_vars

(***************************************************************************)
(* Spec: the gateway process serving enqueue requests with concurrent      *)
(* handler coroutines while its worker runs.                               *)
(***************************************************************************)
Next ==
    \/ \E t \in Tasks :
          \/ /\ started < MaxCalls
             /\ \/ \E kind \in GameKinds, m \in Subjects, a \in ActionIds : CallGame(t, kind, m, a)
                \/ \E m \in Subjects, w \in Wallets : CallLink(t, m, w)
          \/ enqueue_handler(t)
          \/ award_xp(t)
          \/ Return(t)
    \/ tx_worker_loop(1)

Spec == Init /\ [][Next]_vars

(***************************************************************************)
(* SpecWorkers: several worker instances run tx_worker_loop against the    *)
(* one store while requests are served one at a time.                      *)
(***************************************************************************)
NextWorkers ==
    \/ /\ started < MaxCalls
       /\ \/ \E kind \in GameKinds, m \in Subjects, a \in ActionIds : CallGame(1, kind, m, a)
          \/ \E m \in Subjects, w \in Wallets : CallLink(1, m, w)
    \/ enqueue_handler(1)
    \/ award_xp(1)
    \/ Return(1)
    \/ \E w \in Workers : tx_worker_loop(w)

SpecWorkers == Init /\ [][NextWorkers]_vars

(***************************************************************************)
(* SpecRate: one caller sends requests one after the other, enough of them *)
(* to reach the hourly ceiling.  A request carries an action id the caller *)
(* has used before or its next new one.                                    *)
(***************************************************************************)
RateCaller == "a1"

RateKinds == {"game_enter", "game_action"}

RateIds == <<"r1", "r2", "r3", "r4", "r5", "r6", "r7", "r8", "r9", "r10", "r11", "r12">>

NextRate ==
    \/ /\ AllIdle
       /\ started < MaxRateCalls
       /\ \/ \E kind \in RateKinds, k \in 1..Len(RateIds) :
                /\ k <= Cardinality(db.action_log) + 1
                /\ CallGame(1, kind, RateCaller, RateIds[k])
          \/ \E w \in Wallets : CallLink(1, RateCaller, w)
    \/ enqueue_handler(1)
    \/ Return(1)

SpecRate == Init /\ [][NextRate]_vars

(***************************************************************************)
(* Claims about the reward ledger.                                         *)
(***************************************************************************)
\* the fold of a subject's events, as the specification defines the projection
FoldOf(events, s) ==
    LET es == EventsOf(events, s) IN
    [ total_xp          |-> SumXp(es),
      lifetime_gold     |-> SumGold(es),
      lifetime_sessions |-> CountType(es, "session_complete"),
      lifetime_wins     |-> CountType(es, "win"),
      dm_sessions       |-> CountType(es, "dm_hosted") ]

\* the cumulative columns of a row; a subject without a row has accumulated nothing
Totals(row) ==
    IF row.present
    THEN [ total_xp |-> row.total_xp, lifetime_gold |-> row.lifetime_gold,
           lifetime_sessions |-> row.lifetime_sessions,
           lifetime_wins |-> row.lifetime_wins, dm_sessions |-> row.dm_sessions ]
    ELSE [ total_xp |-> 0, lifetime_gold |-> 0, lifetime_sessions |-> 0,
           lifetime_wins |-> 0, dm_sessions |-> 0 ]

LevelOf(row) == IF row.present THEN row.current_level ELSE "novice"

DoneAward(t) == task[t].kind = "award" /\ task[t].pc = "done"
DoneRebuild(t) == task[t].kind = "rebuild" /\ task[t].pc = "done"

\* a counter after one more event of type ty, given r's type (NULL stays NULL)
CounterAfter(old, r, ty) ==
    IF old = NULL THEN NULL ELSE old + (IF r.event_type = ty THEN 1 ELSE 0)

\* C6: award_xp called with a key that already has an xp_events row returns
\* False without raising and leaves xp_events and agent_stats as they were (no
\* matter what amounts, subject or type the second call carries); called with
\* a new key it returns True, adds exactly one row and applies its deltas
\* once; no key ever has two rows.
C6_AwardIdempotent ==
    /\ \A i, j \in 1..Len(db.xp_events) :
          db.xp_events[i].idempotency_key = db.xp_events[j].idempotency_key => i = j
    /\ \A t \in Tasks : DoneAward(t) =>
          LET r    == task[t].req
              snap == task[t].loc.snap
              old  == Totals(snap.agent_stats[r.moltbook_id])
              new  == committed.agent_stats[r.moltbook_id] IN
          IF KeyExists(snap.xp_events, r.idempotency_key)
          THEN /\ task[t].result = "False"
               /\ committed.xp_events = snap.xp_events
               /\ committed.agent_stats = snap.agent_stats
               /\ db = committed
          ELSE /\ task[t].result = "True"
               /\ committed.xp_events = Append(snap.xp_events, r)
               /\ \A s \in Subjects \ {r.moltbook_id} :
                      committed.agent_stats[s] = snap.agent_stats[s]
               /\ new.present
               /\ new.total_xp = old.total_xp + r.xp_amount
               /\ new.lifetime_gold = old.lifetime_gold + r.gold_amount
               /\ new.lifetime_sessions = CounterAfter(old.lifetime_sessions, r, "session_complete")
               /\ new.lifetime_wins = CounterAfter(old.lifetime_wins, r, "win")
               /\ new.dm_sessions = CounterAfter(old.dm_sessions, r, "dm_hosted")

\* C7: in every committed state the agent_stats row of each subject equals the
\* fold of the subject's xp_events rows (sums of xp and gold, counts of
\* session_complete, win and dm_hosted events).
C7_StatsEqualFold ==
    \A s \in Subjects :
        Totals(committed.agent_stats[s]) = FoldOf(committed.xp_events, s)

\* C8: rebuild_agent_stats leaves the projection exactly as the incremental
\* award path produced it: after a rebuild the cumulative columns and
\* current_level of the subject are those it had when the rebuild was called.
C8_RebuildEqualsIncremental ==
    \A t \in Tasks : DoneRebuild(t) =>
        LET s == task[t].req.moltbook_id IN
        /\ Totals(committed.agent_stats[s]) = Totals(task[t].loc.snap.agent_stats[s])
        /\ LevelOf(committed.agent_stats[s]) = LevelOf(task[t].loc.snap.agent_stats[s])

\* C9: once a rebuild and an award of the same subject that committed between
\* the rebuild's read and its write have both completed, the subject's row
\* equals the fold of all its events.
C9_RebuildKeepsConcurrentAward ==
    \A t \in Tasks :
        ( /\ DoneRebuild(t)
          /\ task[t].loc.raced
          /\ \A u \in Tasks : task[u].pc \in {"idle", "done"} )
        => Totals(committed.agent_stats[task[t].req.moltbook_id])
             = FoldOf(committed.xp_events, task[t].req.moltbook_id)

\* C10: after a successful award_xp the subject's current_level is the
\* threshold function of its new total_xp, for a new row and for an existing one.
C10_LevelMatchesTotal ==
    \A t \in Tasks : (DoneAward(t) /\ task[t].result = "True") =>
        LET row == committed.agent_stats[task[t].req.moltbook_id] IN
        /\ row.present
        /\ row.current_level = Level(row.total_xp)

(***************************************************************************)
(* Claims about the transaction queue.                                     *)
(***************************************************************************)
SamePair(r1, r2) == r1.moltbook_id = r2.moltbook_id /\ r1.action_id = r2.action_id

UniquePairs(queue) ==
    \A i, j \in 1..Len(queue) : SamePair(queue[i], queue[j]) => i = j

Enqueuer(t) == task[t].kind \in GameKinds \cup {"auth_link_simple"}

\* the results with which a handler refuses a request before it enqueues
AdmissionErrors ==
    { "RATE_LIMIT", "EPOCH_NOT_ACTIVE", "SESSION_NOT_FOUND", "SESSION_NOT_ACTIVE",
      "TURN_MISMATCH", "ALREADY_ACCEPTED", "SESSION_NOT_WAITING_DM",
      "DM_EPOCH_MISMATCH", "LINK_WALLET_FIRST", "ALREADY_LINKED" }

\* C1: in every reachable state, in the connection's view and in the committed
\* tables, tx_queue holds at most one row per (moltbook_id, action_id),
\* whatever enqueue attempts of the five handlers have interleaved.
C1_UniqueCallerAction ==
    /\ UniquePairs(db.tx_queue)
    /\ UniquePairs(committed.tx_queue)

\* the same action_id enqueued by two different callers: two committed rows
C1_Witness ==
    \E i, j \in 1..Len(committed.tx_queue) :
        /\ i # j
        /\ committed.tx_queue[i].action_id = committed.tx_queue[j].action_id
        /\ committed.tx_queue[i].moltbook_id # committed.tx_queue[j].moltbook_id

\* C2: two submissions of the same (caller, action id) that both passed
\* admission, made one after the other or interleaved, have both returned
\* success with the same queue-entry id, and one entry of the pair exists.
C2_DuplicateSubmissionsAgree ==
    \A t, u \in Tasks :
        ( /\ t # u
          /\ Enqueuer(t) /\ Enqueuer(u)
          /\ task[t].pc = "done" /\ task[u].pc = "done"
          /\ SamePair(task[t].req, task[u].req)
          /\ task[t].result \notin AdmissionErrors
          /\ task[u].result \notin AdmissionErrors )
        => /\ task[t].result = "ok" /\ task[u].result = "ok"
           /\ task[t].loc.tx_id = task[u].loc.tx_id
           /\ Cardinality(TxByAction(db.tx_queue, task[t].req.moltbook_id,
                                     task[t].req.action_id)) = 1

\* the statuses an entry may take next (or keep)
AllowedNext(status) ==
    CASE status = "pending"    -> {"pending", "submitting"}
      [] status = "submitting" -> {"submitting", "submitted", "failed"}
      [] status = "submitted"  -> {"submitted", "mined", "failed"}
      [] status = "mined"      -> {"mined"}
      [] status = "failed"     -> {"failed"}

\* C4: in every step, the status every reader of the store sees for an entry
\* either stays or moves forward along pending -> submitting -> submitted ->
\* {mined | failed} (submitting -> failed included); it never moves back and
\* never leaves mined or failed.
C4_StatusMonotonic ==
    [][ \A i \in 1..Len(db.tx_queue) :
          ( /\ i <= Len(db'.tx_queue)
            /\ SamePair(db.tx_queue[i], db'.tx_queue[i]) )
          => db'.tx_queue[i].status \in AllowedNext(db.tx_queue[i].status) ]_vars

(***************************************************************************)
(* Claims about the runner wallet's nonces.                                *)
(***************************************************************************)
\* C3: the nonces of the transactions send_tx has broadcast successfully are
\* consecutive: each is the previous one plus one (strictly increasing, no
\* repeat, no gap), also when calls in between failed after get_nonce returned.
C3_NoncesGapless ==
    \A i \in 1..(Len(sent) - 1) : sent[i + 1] = sent[i] + 1

C13_BroadcastInNonceOrder ==
    \A i, j \in 1..Len(sent) : i < j => sent[i] < sent[j]

\* calls of send_tx from several requests have broadcast, with a failed call
\* or a transaction of another path in between
C13_Witness ==
    /\ Len(sent) >= 3
    /\ \E i \in 1..(Len(sent) - 1) : sent[i + 1] > sent[i] + 1

Handling(id) ==
    \E w \in Workers :
        /\ worker[w].pc \in {"mark_failed", "commit_failed"}
        /\ Head(worker[w].batch) = id

\* the entries for which a call of client.send_tx has raised and whose
\* exception has been handled
Handled == {id \in DOMAIN committed.tx_queue :
               (\E k \in 1..Len(attempted) : attempted[k] = id) /\ ~Handling(id)}

C15_FailedBroadcastStaysFailed ==
    \A id \in Handled :
        /\ committed.tx_queue[id].status = "failed"
        /\ committed.tx_queue[id].error # None
        /\ Cardinality({k \in 1..Len(attempted) : attempted[k] = id}) = 1

RECURSIVE Range(_)
Range(q) == IF q = <<>> THEN {} ELSE {Head(q)} \cup Range(Tail(q))

\* C16: a worker cycle ends only when every entry of its batch has been
\* marked submitting and submitted in that cycle, whatever failed before it.
C16_FailureDoesNotStopCycle ==
    [][\A w \in Workers :
          (worker[w].pc # "sleep" /\ worker'[w].pc = "sleep") =>
              \A id \in Range(worker[w].fetched) :
                  \E k \in (worker[w].since + 1)..Len(attempted') : attempted'[k] = id]_vars

\* a cycle over a batch of two: the first entry has failed and the second
\* has been submitted
C16_Witness ==
    \E w \in Workers :
        /\ Len(worker[w].fetched) = 2
        /\ Len(worker[w].batch) = 1
        /\ worker[w].pc = "commit_failed"
        /\ db.tx_queue[worker[w].fetched[1]].status = "failed"
        /\ attempted[Len(attempted)] = worker[w].fetched[2]

(***************************************************************************)
(* Claims about admission.                                                 *)
(***************************************************************************)
\* handler t has answered a request for a pair that has a queue entry
Resubmission(t) ==
    /\ task[t].kind \in GameKinds
    /\ task[t].pc = "done"
    /\ TxByAction(committed.tx_queue, task[t].req.moltbook_id, task[t].req.action_id) # {}

\* C20: a request for a pair that already has a queue entry is not rejected
\* by the rate limiter, however many entries its caller has.
C20_DuplicateBeforeRateLimit ==
    \A t \in Tasks : Resubmission(t) => task[t].result # "RATE_LIMIT"

\* handler t has answered a /game/enter request
DoneEnter(t) == task[t].kind = "game_enter" /\ task[t].pc = "done"

\* the queue entry of the pair of handler t's request, if there is one
OwnEntry(t) == TxByAction(committed.tx_queue, task[t].req.moltbook_id, task[t].req.action_id)

\* C21: of a caller's sequential /game/enter attempts, one is rejected with
\* RateLimitExceeded only when the caller has 10 entries or more, and then
\* creates nothing; an attempt made with a new action id below the ceiling
\* while the epoch is Active succeeds with a pending entry, the caller's
\* tenth at the latest.
C21_EleventhRejected ==
    \A t \in Tasks : DoneEnter(t) =>
        LET n == count_recent_txs(committed.tx_queue, task[t].req.moltbook_id) IN
        /\ task[t].result = "RATE_LIMIT" =>
              /\ n >= MaxTxPerHour
              /\ task[t].loc.tx_id = NULL
              /\ db = committed
        /\ task[t].loc.epoch = "Active" /\ task[t].result # "RATE_LIMIT" =>
              /\ task[t].result = "ok"
              /\ OwnEntry(t) = {task[t].loc.tx_id}
              /\ committed.tx_queue[task[t].loc.tx_id].status = "pending"
              /\ task[t].loc.tx_id = Len(committed.tx_queue) => n <= MaxTxPerHour

\* the caller's eleventh attempt, with an action id of its own, is rejected
\* after ten have created their entries
C21_Witness ==
    \E t \in Tasks :
        /\ DoneEnter(t)
        /\ task[t].result = "RATE_LIMIT"
        /\ OwnEntry(t) = {}
        /\ Len(committed.tx_queue) = MaxTxPerHour
        /\ \A i \in 1..Len(committed.tx_queue) :
              /\ committed.tx_queue[i].method = "enterDungeon"
              /\ committed.tx_queue[i].moltbook_id = task[t].req.moltbook_id

\* C22: in every state, whatever handlers created them, the queue entries of
\* one caller within the trailing hour number at most 10.
C22_AtMostTenPerCaller ==
    \A m \in Subjects : count_recent_txs(db.tx_queue, m) <= MaxTxPerHour

\* handler t has answered a turn submission whose declared turn_index differs
\* from the current turn the ledger holds for its existing, Active session
MismatchedTurn(t) ==
    /\ task[t].kind \in {"game_action", "game_dm"} /\ task[t].pc = "done"
    /\ task[t].loc.verdict = "TURN_MISMATCH"

\* C23: a turn submission for an Active session with a turn_index other than
\* the ledger's current turn, made with an action id that has no entry, is
\* answered TurnMismatch and creates no entry.
C23_TurnMismatchRejected ==
    \A t \in Tasks : MismatchedTurn(t) /\ OwnEntry(t) = {} =>
        task[t].result = "TURN_MISMATCH"

\* handler t answers its request with an admission error in this step
Rejects(t) ==
    /\ task[t].pc # "done" /\ task'[t].pc = "done"
    /\ task'[t].result \in AdmissionErrors

\* C24: the step that answers an admission error changes neither the
\* connection's view of the tables nor the committed tables, and the request
\* it answers has inserted no queue entry before it.
C24_RejectionLeavesStores ==
    [][ \A t \in Tasks : Rejects(t) =>
            /\ UNCHANGED storeVars
            /\ task'[t].loc.tx_id = NULL
            /\ task'[t].loc.exc = "none" ]_vars

\* a turn submission has been answered TurnMismatch while the other handler's
\* insert is still uncommitted on the shared connection
C24_Witness ==
    \E t, u \in Tasks :
        /\ task[t].pc = "done" /\ task[t].result = "TURN_MISMATCH"
        /\ task[u].pc = "enqueue_commit"
        /\ in_txn
        /\ committed = EmptyDb

\* C25: a /game/enter answered while the ledger's epoch is in Grace, with an
\* action id that has no entry, is answered EpochNotActive, whoever calls.
C25_GraceRejected ==
    \A t \in Tasks :
        DoneEnter(t) /\ task[t].loc.epoch = "Grace" /\ OwnEntry(t) = {} =>
            task[t].result = "EPOCH_NOT_ACTIVE"

(***************************************************************************)
(* SpecRestart: the gateway process stops at any moment and is started     *)
(* again.  The connection is closed with whatever transaction is open      *)
(* rolled back, the coroutines and the NonceManager's cache are gone, the   *)
(* database file and the ledger stay.  lifespan's startup opens the store   *)
(* and starts tx_worker_loop; it runs no recovery of any kind.              *)
(***************************************************************************)
Restart ==
    /\ db' = committed
    /\ in_txn' = FALSE
    /\ last_rowid' = NULL
    /\ task' = [t \in Tasks |-> Idle]
    /\ worker' = [worker EXCEPT ![1] = IdleWorker]
    /\ nonce' = NULL
    /\ UNCHANGED <<committed, chain, sent, handed, direct, attempted, started>>

NextRestart ==
    \/ /\ started < MaxCalls
       /\ \/ \E kind \in GameKinds, m \in Subjects, a \in ActionIds : CallGame(1, kind, m, a)
          \/ \E m \in Subjects, w \in Wallets : CallLink(1, m, w)
    \/ enqueue_handler(1)
    \/ award_xp(1)
    \/ Return(1)
    \/ tx_worker_loop(1)
    \/ Restart

\* the event loop keeps running the worker task as long as it has a step to take
SpecRestart == Init /\ [][NextRestart]_vars /\ WF_vars(tx_worker_loop(1))

\* entry i is committed in the queue with status pending or submitting
InFlight(i) ==
    /\ i <= Len(committed.tx_queue)
    /\ committed.tx_queue[i].status \in {"pending", "submitting"}

\* C26: if the process is restarted only finitely often, every committed
\* entry with status pending or submitting eventually leaves these two
\* statuses.
C26_RestartLosesNoEntry ==
    (<>[][~Restart]_vars) =>
        \A i \in 1..MaxCalls : InFlight(i) ~> ~InFlight(i)

(***************************************************************************)
(* SpecAmounts: /internal/award-xp called with whatever integers the       *)
(* request model admits.  InternalAwardXPRequest declares xp_amount and     *)
(* gold_amount as plain int, and neither the handler, award_xp nor the      *)
(* schema of xp_events restricts them.                                      *)
(***************************************************************************)
RequestXpAmounts == {-10, 10}

RequestGoldAmounts == {-5, 0}

InternalAwardXPRequests ==
    [ idempotency_key : IdemKeys, moltbook_id : Subjects, event_type : EventTypes,
      xp_amount : RequestXpAmounts, gold_amount : RequestGoldAmounts ]

NextAmounts ==
    \/ /\ AllIdle
       /\ started < MaxCalls
       /\ \E r \in InternalAwardXPRequests : CallAward(1, r)
    \/ award_xp(1)
    \/ Return(1)

SpecAmounts == Init /\ [][NextAmounts]_vars

\* C27: every row of xp_events has xp_amount >= 0 and gold_amount >= 0, and
\* no subject's total_xp or lifetime_gold is below zero.
C27_AmountsNonNegative ==
    /\ \A i \in 1..Len(committed.xp_events) :
          /\ committed.xp_events[i].xp_amount >= 0
          /\ committed.xp_events[i].gold_amount >= 0
    /\ \A s \in Subjects :
          committed.agent_stats[s].present =>
              /\ committed.agent_stats[s].total_xp >= 0
              /\ committed.agent_stats[s].lifetime_gold >= 0

\* C28: in every committed state the xp and gold of exactly the committed
\* xp_events rows of a subject have been added to its agent_stats row: no
\* committed state holds an award's event without its deltas or its deltas
\* without the event.
C28_AwardAtomic ==
    \A s \in Subjects :
        /\ Totals(committed.agent_stats[s]).total_xp = SumXp(EventsOf(committed.xp_events, s))
        /\ Totals(committed.agent_stats[s]).lifetime_gold = SumGold(EventsOf(committed.xp_events, s))

(***************************************************************************)
(* SpecNonceManager: the runner wallet's senders with the NonceManager's   *)
(* cache emptied now and then by reset(); a start of the process leaves     *)
(* the manager in the same state (_nonce None, the ledger as it is).        *)
(***************************************************************************)
\* NonceManager.reset
reset ==
    /\ nonce' = NULL
    /\ UNCHANGED <<storeVars, task, worker, chain, sent, handed, direct, attempted, started>>

NextNonceManager ==
    \/ admin_register_runner
    \/ admin_mint_runner_tickets
    \/ reset

SpecNonceManager == Init /\ [][NextNonceManager]_vars

NextBatch ==
    \/ /\ AllIdle
       /\ started < MaxBatchCalls
       /\ CallGame(1, "game_enter", RateCaller, RateIds[Cardinality(db.action_log) + 1])
    \/ CheckRateLimit(1)
    \/ CheckIdempotency(1)
    \/ EnqueueInsert(1)
    \/ EnqueueCommit(1)
    \/ LogInsert(1)
    \/ LogCommit(1)
    \/ Return(1)
    \/ tx_worker_loop(1)

SpecBatch == Init /\ [][NextBatch]_vars

\* the ids of the pending entries the process's connection sees
PendingIds == {i \in 1..Len(db.tx_queue) : db.tx_queue[i].status = "pending"}

\* the entries of its current batch worker w has passed to client.send_tx
DoneOfBatch(w) == SubSeq(attempted, worker[w].since + 1, Len(attempted))

\* the batch: a cycle of the worker takes the (at most 5) pending entries
\* that were created first, in the order of their creation
BatchIsOldestFive ==
    [][ (worker[1].pc = "sleep" /\ worker'[1].pc # "sleep") =>
            LET f == worker'[1].fetched IN
            /\ Len(f) <= 5
            /\ Len(f) = 5 \/ Len(f) = Cardinality(PendingIds)
            /\ \A k \in 1..Len(f) : f[k] \in PendingIds
            /\ \A k \in 1..(Len(f) - 1) : f[k] < f[k + 1]
            /\ \A i \in PendingIds : (\A k \in 1..Len(f) : f[k] # i) => i > f[Len(f)] ]_vars

\* the order: the worker handles the entries of a batch one at a time in the
\* order of the batch, an entry is committed as submitting when it is passed
\* to client.send_tx (where its nonce would be allocated), the next entry is
\* touched only when the previous one has been dealt with, and over all
\* cycles entries reach client.send_tx in the order of their creation
SequentialInOrder ==
    LET w == worker[1]
        n == Len(w.fetched) - Len(w.batch) IN
    /\ w.pc # "sleep" =>
          /\ w.batch = SubSeq(w.fetched, n + 1, Len(w.fetched))
          /\ DoneOfBatch(1) = SubSeq(w.fetched, 1,
                                     IF w.pc \in {"mark_failed", "commit_failed"}
                                     THEN n + 1 ELSE n)
          /\ w.pc = "mark_failed" =>
                committed.tx_queue[Head(w.batch)].status = "submitting"
          /\ \A k \in 2..Len(w.batch) : db.tx_queue[w.batch[k]].status = "pending"
    /\ \A j, k \in 1..Len(attempted) : j < k => attempted[j] < attempted[k]

C31_WorkerBroadcasts ==
    \A i \in 1..Len(committed.tx_queue) :
        committed.tx_queue[i].status = "failed" =>
            committed.tx_queue[i].error # "TypeError"

\* the pre-flight lets a request through exactly for the snapshots the claim
\* names, and looks at the state before it looks at the turn
PreFlightAdmits ==
    \A info \in SessionInfos, n \in {0, 1} :
        /\ Verdict("game_action", info, n, n) = "valid" <=>
              (info.present /\ info.state = 2 /\ info.current_turn = n)
        /\ Verdict("game_dm", info, n, n) = Verdict("game_action", info, n, n)
        /\ Verdict("game_accept_dm", info, n, n) = "valid" <=>
              (info.present /\ info.state = 1 /\ info.dm_epoch = n)
        /\ (info.present /\ info.state # 2) =>
              Verdict("game_action", info, n, n) = "SESSION_NOT_ACTIVE"

\* handler t inserts its queue entry in this step
Inserts(t) ==
    /\ task[t].pc = "insert"
    /\ Len(db'.tx_queue) = Len(db.tx_queue) + 1
    /\ task'[t].pc = "enqueue_commit"

\* C32: game_action, game_dm and game_accept_dm insert a queue entry only
\* when the pre-flight of that request found the snapshot valid (existing,
\* Active with the declared turn, resp. WaitingDM with the declared dm_epoch);
\* a session that is not Active is rejected as such whatever the turn index.
C32_EntryOnlyAfterValidPreFlight ==
    /\ []PreFlightAdmits
    /\ [][ \A t \in Tasks :
             (Inserts(t) /\ task[t].kind \in {"game_action", "game_dm", "game_accept_dm"})
                 => task[t].loc.verdict = "valid" ]_vars

\* a turn submission has created its entry while another one, for a session
\* that is not Active, has been rejected
C32_Witness ==
    \E t, u \in Tasks :
        /\ task[t].kind = "game_dm" /\ task[t].pc = "done" /\ task[t].result = "ok"
        /\ task[t].loc.verdict = "valid"
        /\ OwnEntry(t) = {task[t].loc.tx_id}
        /\ task[u].kind = "game_action" /\ task[u].result = "SESSION_NOT_ACTIVE"

\* the fields of a queue row that identify it (params and created_at are
\* written by the same INSERT and by no other statement)
Identity(row) ==
    [ action_id |-> row.action_id, moltbook_id |-> row.moltbook_id, method |-> row.method ]

C34_DuplicateReturnsStoredEntry ==
    \A t \in Tasks :
        (Resubmission(t) /\ task[t].result # "EPOCH_NOT_ACTIVE") =>
            /\ task[t].result = "ok"
            /\ OwnEntry(t) = {task[t].loc.tx_id}

C36_ReturnedIdIsOwnRow ==
    [][ \A t \in Tasks :
          (task[t].pc = "enqueue_commit" /\ task'[t].pc # "enqueue_commit") =>
              /\ task'[t].loc.tx_id \in 1..Len(committed'.tx_queue)
              /\ committed'.tx_queue[task'[t].loc.tx_id].moltbook_id = task[t].req.moltbook_id
              /\ committed'.tx_queue[task'[t].loc.tx_id].action_id = task[t].req.action_id ]_vars

\* C37: every committed xp_events row belongs to a queue entry of its subject
\* that is mined; no credit exists while the subject's entries are pending,
\* submitting or failed.
C37_CreditOnlyForMined ==
    \A i \in 1..Len(committed.xp_events) :
        \E j \in 1..Len(committed.tx_queue) :
            /\ committed.tx_queue[j].moltbook_id = committed.xp_events[i].moltbook_id
            /\ committed.tx_queue[j].status = "mined"

\* C38: game_enter inserts a queue entry only when the epoch read of that
\* request succeeded and reported Active.
C38_EnterOnlyWhenEpochActive ==
    [][ \A t \in Tasks :
          (Inserts(t) /\ task[t].kind = "game_enter") => task[t].loc.epoch = "Active" ]_vars

\* the hash and error columns of a row agree with its status
HashMatchesStatus(row) ==
    /\ row.status \in {"submitted", "mined"} => row.tx_hash # None
    /\ row.status \in {"pending", "submitting"} => (row.tx_hash = None /\ row.error = None)

\* C39: in every state, in the connection's view and in the committed table,
\* a submitted or mined entry has a tx_hash and a pending or submitting entry
\* has neither a tx_hash nor an error.
C39_HashAndErrorMatchStatus ==
    /\ \A i \in 1..Len(db.tx_queue) : HashMatchesStatus(db.tx_queue[i])
    /\ \A i \in 1..Len(committed.tx_queue) : HashMatchesStatus(committed.tx_queue[i])

\* an entry that one worker instance has failed is marked submitting again by
\* another instance that had fetched it too
C39_Witness ==
    \E i \in 1..Len(committed.tx_queue) :
        /\ committed.tx_queue[i].status = "submitting"
        /\ committed.tx_queue[i].error = None
        /\ attempted = <<i, i>>
        /\ worker[1].pc = "sleep"
        /\ worker[2].pc = "mark_failed"

(***************************************************************************)
(* SpecFair: the process serves requests while its one worker runs, and    *)
(* the event loop is fair: a coroutine that has a step to take is resumed. *)
(* No operation of the store raises in this specification: every execute   *)
(* and commit of the worker returns normally.                              *)
(***************************************************************************)
NextFair ==
    \/ /\ started < MaxCalls
       /\ \/ \E kind \in GameKinds, m \in Subjects, a \in ActionIds : CallGame(1, kind, m, a)
          \/ \E m \in Subjects, w \in Wallets : CallLink(1, m, w)
    \/ enqueue_handler(1)
    \/ award_xp(1)
    \/ Return(1)
    \/ tx_worker_loop(1)

SpecFair ==
    /\ Init
    /\ [][NextFair]_vars
    /\ WF_vars(tx_worker_loop(1))
    /\ WF_vars(enqueue_handler(1) \/ award_xp(1) \/ Return(1))

\* entry i is committed in the queue with status pending
PendingEntry(i) ==
    /\ i <= Len(committed.tx_queue)
    /\ committed.tx_queue[i].status = "pending"

\* entry i is committed in the queue with the outcome of its send recorded
Settled(i) ==
    /\ i <= Len(committed.tx_queue)
    /\ committed.tx_queue[i].status \in {"submitted", "failed"}

\* C40: with one worker that is scheduled fairly and whose store operations
\* all return normally, every entry committed as pending is eventually
\* passed to the send by the worker and eventually has status submitted or
\* failed in the committed queue.
C40_PendingEventuallySettled ==
    \A i \in 1..MaxCalls : PendingEntry(i) ~> (i \in Range(attempted) /\ Settled(i))

=============================================================================
